---- MODULE Spec2Model ----
(***************************************************************************)
(* A model of california_housing_analysis.py: the batch pipeline of main   *)
(* (key validation, census fetch, Zillow processing, rental analysis,      *)
(* final-dataset construction, the four output writes) and the pure        *)
(* transforms those stages apply to the price-index and rent tables.       *)
(*                                                                         *)
(* Data representation                                                     *)
(*   - a text (column label, metro name) is a sequence of one-character    *)
(*     strings, so that prefix tests, substring search, replacement and    *)
(*     lexicographic comparison are computed character by character;       *)
(*   - a float is a pair <<n, d>>: the rational n/d in lowest terms with   *)
(*     d > 0, or <<0,0>> (NaN), <<1,0>> (+inf), <<-1,0>> (-inf);           *)
(*   - Python's None is the empty tuple;                                   *)
(*   - a wide table is [cols |-> labels, rows |-> <<[RegionName, vals]>>], *)
(*     vals aligned with cols (RegionName is kept apart from cols).        *)
(***************************************************************************)
EXTENDS Integers, Sequences, FiniteSets, TLC

(***************************************************************************)
(* Bounds of the model.                                                    *)
(***************************************************************************)
MaxRows == 3
MaxCols == 14

(***************************************************************************)
(* Program constants.                                                      *)
(***************************************************************************)
YearLag == 13
OffsetMonths == 12
MinCensusRows == 2

None == <<>>

(***************************************************************************)
(* Floats.                                                                 *)
(***************************************************************************)
NaN == <<0, 0>>
PosInf == <<1, 0>>
NegInf == <<-1, 0>>

Abs(n) == IF n < 0 THEN -n ELSE n

Sgn(n) == IF n < 0 THEN -1 ELSE IF n > 0 THEN 1 ELSE 0

RECURSIVE Gcd(_, _)
Gcd(a, b) == IF b = 0 THEN a ELSE Gcd(b, a % b)

Rat(n, d) ==
  IF d = 0 THEN <<Sgn(n), 0>>
  ELSE LET g == Gcd(Abs(n), Abs(d))
       IN  <<Sgn(d) * (n \div g), Abs(d) \div g>>

Num(n) == <<n, 1>>

IsNaN(x) == x = NaN

IsFinite(x) == x[2] # 0

\* pd.notnull / pd.notna on a scalar: neither None nor NaN
notnull(x) == x # None /\ ~IsNaN(x)

\* x < y on floats: every comparison with NaN is false
float_lt(x, y) ==
  /\ ~IsNaN(x)
  /\ ~IsNaN(y)
  /\ IF IsFinite(x) /\ IsFinite(y) THEN x[1] * y[2] < y[1] * x[2]
     ELSE IF IsFinite(x) THEN y = PosInf
     ELSE IF IsFinite(y) THEN x = NegInf
     ELSE x = NegInf /\ y = PosInf

float_gt(x, y) == float_lt(y, x)

float_add(x, y) ==
  IF IsNaN(x) \/ IsNaN(y) THEN NaN
  ELSE IF IsFinite(x) /\ IsFinite(y) THEN Rat(x[1] * y[2] + y[1] * x[2], x[2] * y[2])
  ELSE IF IsFinite(x) THEN y
  ELSE IF IsFinite(y) THEN x
  ELSE IF x = y THEN x ELSE NaN

float_neg(x) == <<-x[1], x[2]>>

float_sub(x, y) == float_add(x, float_neg(y))

float_mul(x, y) ==
  IF IsNaN(x) \/ IsNaN(y) THEN NaN
  ELSE IF IsFinite(x) /\ IsFinite(y) THEN Rat(x[1] * y[1], x[2] * y[2])
  ELSE <<Sgn(x[1]) * Sgn(y[1]), 0>>

\* IEEE division, as numpy performs it: x/0 is +-inf or NaN, never an exception
float_div(x, y) ==
  IF IsNaN(x) \/ IsNaN(y) THEN NaN
  ELSE IF IsFinite(x) /\ IsFinite(y) THEN Rat(x[1] * y[2], x[2] * y[1])
  ELSE IF IsFinite(x) THEN Num(0)
  ELSE IF IsFinite(y) THEN <<Sgn(x[1]) * (IF y[1] < 0 THEN -1 ELSE 1), 0>>
  ELSE NaN

\* (latest - year_ago) / year_ago * 100
pct_change(latest, year_ago) ==
  float_mul(float_div(float_sub(latest, year_ago), year_ago), Num(100))

(***************************************************************************)
(* Texts: Python str operations on sequences of characters.                *)
(***************************************************************************)
\* the characters of the labels and names, with their code points
Punct == <<" ", ",", "-", ".", "/">>

PunctOrd == <<32, 44, 45, 46, 47>>

Digits == <<"0", "1", "2", "3", "4", "5", "6", "7", "8", "9">>

Upper ==
  <<"A", "B", "C", "D", "E", "F", "G", "H", "I", "J", "K", "L", "M",
    "N", "O", "P", "Q", "R", "S", "T", "U", "V", "W", "X", "Y", "Z">>

Lower ==
  <<"a", "b", "c", "d", "e", "f", "g", "h", "i", "j", "k", "l", "m",
    "n", "o", "p", "q", "r", "s", "t", "u", "v", "w", "x", "y", "z">>

IndexOf(c, s) == CHOOSE i \in 1..Len(s) : s[i] = c

Occurs(c, s) == \E i \in 1..Len(s) : s[i] = c

\* ord(c)
Ord(c) ==
  IF Occurs(c, Digits) THEN 47 + IndexOf(c, Digits)
  ELSE IF Occurs(c, Upper) THEN 64 + IndexOf(c, Upper)
  ELSE IF Occurs(c, Lower) THEN 96 + IndexOf(c, Lower)
  ELSE PunctOrd[IndexOf(c, Punct)]

Min2(a, b) == IF a < b THEN a ELSE b

\* s < t on Python strings: lexicographic by code point
RECURSIVE str_lt(_, _)
str_lt(s, t) ==
  IF t = <<>> THEN FALSE
  ELSE IF s = <<>> THEN TRUE
  ELSE IF Head(s) = Head(t) THEN str_lt(Tail(s), Tail(t))
  ELSE Ord(Head(s)) < Ord(Head(t))

\* s.startswith(p)
startswith(s, p) == Len(s) >= Len(p) /\ SubSeq(s, 1, Len(p)) = p

\* p in s (str.contains with a pattern that has no regex metacharacter)
str_contains(s, p) ==
  \E i \in 1..(Len(s) - Len(p) + 1) : SubSeq(s, i, i + Len(p) - 1) = p

\* s.replace(p, ""): every non-overlapping occurrence removed, left to right
RECURSIVE str_remove(_, _)
str_remove(s, p) ==
  IF Len(s) < Len(p) \/ p = <<>> THEN s
  ELSE IF SubSeq(s, 1, Len(p)) = p THEN str_remove(SubSeq(s, Len(p) + 1, Len(s)), p)
  ELSE <<Head(s)>> \o str_remove(Tail(s), p)

Reverse(s) == [i \in 1..Len(s) |-> s[Len(s) + 1 - i]]

Range(s) == {s[i] : i \in 1..Len(s)}

\* s.lower()
lower_char(c) == IF Occurs(c, Upper) THEN Lower[IndexOf(c, Upper)] ELSE c

str_lower(s) == [i \in 1..Len(s) |-> lower_char(s[i])]

\* the literals of the program
CA_SUFFIX == <<",", " ", "C", "A">>
PREFIX_20 == <<"2", "0">>

(***************************************************************************)
(* Dates: the labels of the monthly columns and their timestamps.          *)
(***************************************************************************)
IsDigit(c) == Occurs(c, Digits)

DigitVal(c) == IndexOf(c, Digits) - 1

IsLeap(y) == (y % 4 = 0 /\ y % 100 # 0) \/ y % 400 = 0

DaysInMonth(y, m) ==
  IF m = 2 THEN (IF IsLeap(y) THEN 29 ELSE 28)
  ELSE IF m \in {4, 6, 9, 11} THEN 30 ELSE 31

DigitAt(n, p) == Digits[((n \div p) % 10) + 1]

\* the ISO text of a date, "YYYY-MM-DD", as the Zillow files label columns
FmtDate(y, m, d) ==
  << DigitAt(y, 1000), DigitAt(y, 100), DigitAt(y, 10), DigitAt(y, 1), "-",
     DigitAt(m, 10), DigitAt(m, 1), "-", DigitAt(d, 10), DigitAt(d, 1) >>

\* pd.to_datetime on one ISO label: the timestamp <<y, m, d>>, or None when the
\* text is no date (to_datetime raises)
to_datetime(s) ==
  IF /\ Len(s) = 10
     /\ \A i \in {1, 2, 3, 4, 6, 7, 9, 10} : IsDigit(s[i])
     /\ s[5] = "-" /\ s[8] = "-"
  THEN LET y == 1000 * DigitVal(s[1]) + 100 * DigitVal(s[2])
                + 10 * DigitVal(s[3]) + DigitVal(s[4])
           m == 10 * DigitVal(s[6]) + DigitVal(s[7])
           d == 10 * DigitVal(s[9]) + DigitVal(s[10])
       IN  IF m \in 1..12 /\ d >= 1 /\ d <= DaysInMonth(y, m) /\ y >= 1
           THEN <<y, m, d>> ELSE None
  ELSE None

\* t < u on timestamps
date_lt(t, u) ==
  \/ t[1] < u[1]
  \/ t[1] = u[1] /\ t[2] < u[2]
  \/ t[1] = u[1] /\ t[2] = u[2] /\ t[3] < u[3]

\* t - pd.DateOffset(months=k): the month moves back, the day is clipped to the
\* length of the target month
date_minus_months(t, k) ==
  LET idx == t[1] * 12 + (t[2] - 1) - k
      y == idx \div 12
      m == (idx % 12) + 1
  IN  <<y, m, Min2(t[3], DaysInMonth(y, m))>>

\* the month after <<y, m>>
NextMonth(ym) == IF ym[2] = 12 THEN <<ym[1] + 1, 1>> ELSE <<ym[1], ym[2] + 1>>

RECURSIVE MonthsFrom(_, _)
\* n consecutive months starting at ym
MonthsFrom(ym, n) ==
  IF n = 0 THEN <<>> ELSE <<ym>> \o MonthsFrom(NextMonth(ym), n - 1)

\* the month-end labels of n consecutive months starting at ym
MonthEndLabels(ym, n) ==
  LET ms == MonthsFrom(ym, n)
  IN  [i \in 1..n |-> FmtDate(ms[i][1], ms[i][2], DaysInMonth(ms[i][1], ms[i][2]))]

(***************************************************************************)
(* Python's list sort on the short lists of the program (fewer than 64     *)
(* elements: one natural run, then binary insertion).  Every decision is   *)
(* one "<" on the keys, so a NaN key, which is less than nothing and       *)
(* greater than nothing, leaves the list in an order that depends on where *)
(* the NaN stood.                                                          *)
(***************************************************************************)
\* the "<" of a sort: kind "str" compares labels, kind "median_rent" compares
\* the summaries' median_rent keys
key_lt(kind, a, b) ==
  IF kind = "str" THEN str_lt(a, b) ELSE float_lt(a.median_rent, b.median_rent)

RECURSIVE run_end(_, _, _, _)
\* the last index of the run of s that starts at 1 and reaches at least i
run_end(kind, s, i, desc) ==
  IF i = Len(s) THEN i
  ELSE IF key_lt(kind, s[i + 1], s[i]) = desc THEN run_end(kind, s, i + 1, desc)
  ELSE i

RECURSIVE bisect(_, _, _, _, _)
\* the insertion point of pivot in s[l..r-1] (to the right of its equals)
bisect(kind, s, pivot, l, r) ==
  IF l >= r THEN l
  ELSE LET p == l + ((r - l) \div 2)
       IN  IF key_lt(kind, pivot, s[p]) THEN bisect(kind, s, pivot, l, p)
           ELSE bisect(kind, s, pivot, p + 1, r)

RECURSIVE binarysort(_, _, _)
\* s[1..start-1] is sorted; insert s[start], s[start+1], ... one by one
binarysort(kind, s, start) ==
  IF start > Len(s) THEN s
  ELSE LET pivot == s[start]
           l == bisect(kind, s, pivot, 1, start)
       IN  binarysort(kind,
                      SubSeq(s, 1, l - 1) \o <<pivot>> \o SubSeq(s, l, start - 1)
                        \o SubSeq(s, start + 1, Len(s)),
                      start + 1)

\* list.sort() / sorted(s), ascending
list_sort(kind, s) ==
  IF Len(s) < 2 THEN s
  ELSE LET desc == key_lt(kind, s[2], s[1])
           n == run_end(kind, s, 2, desc)
           s1 == IF desc THEN Reverse(SubSeq(s, 1, n)) \o SubSeq(s, n + 1, Len(s))
                 ELSE s
       IN  binarysort(kind, s1, n + 1)

\* sorted(s, key=..., reverse=True): the list is reversed, sorted ascending and
\* reversed again, which keeps equal keys in their original order
sorted_reverse(kind, s) == Reverse(list_sort(kind, Reverse(s)))

\* the selection as it would be by position: the last label
py_last(s) == s[Len(s)]

\* max(labels): the first greatest element
RECURSIVE py_max(_)
py_max(s) ==
  IF Len(s) = 1 THEN s[1]
  ELSE LET m == py_max(SubSeq(s, 1, Len(s) - 1))
       IN  IF str_lt(m, s[Len(s)]) THEN s[Len(s)] ELSE m

(***************************************************************************)
(* Wide tables.                                                            *)
(***************************************************************************)
\* [col for col in df.columns if str(col).startswith('20')]
value_cols_of(df) == SelectSeq(df.cols, LAMBDA col : startswith(col, PREFIX_20))

\* row[label]
row_get(df, row, label) == row.vals[IndexOf(label, df.cols)]

\* the filter as it would be with case=False
ca_metros_ignoring_case(zori_df) ==
  SelectSeq(zori_df.rows,
            LAMBDA r : str_contains(str_lower(r.RegionName), str_lower(CA_SUFFIX)))

\* zori_df[zori_df['RegionName'].str.contains(', CA', na=False)]
ca_metros_of(zori_df) ==
  SelectSeq(zori_df.rows, LAMBDA r : str_contains(r.RegionName, CA_SUFFIX))

\* row['RegionName'].replace(', CA', '')
metro_name_of(row) == str_remove(row.RegionName, CA_SUFFIX)

RECURSIVE float_sum(_)
float_sum(s) == IF s = <<>> THEN Num(0) ELSE float_add(Head(s), float_sum(Tail(s)))

\* Series.mean(): NaN skipped, NaN when nothing is left
series_mean(s) ==
  LET vals == SelectSeq(s, LAMBDA x : ~IsNaN(x))
  IN  IF vals = <<>> THEN NaN ELSE float_div(float_sum(vals), Num(Len(vals)))

\* idxmax as it would be if it took the last position of the greatest value
series_idxmax_last(s) ==
  IF \A i \in 1..Len(s) : IsNaN(s[i]) THEN 0
  ELSE CHOOSE i \in 1..Len(s) :
         /\ ~IsNaN(s[i])
         /\ \A j \in 1..Len(s) : ~float_lt(s[i], s[j])
         /\ \A j \in (i + 1)..Len(s) : IsNaN(s[j]) \/ float_lt(s[j], s[i])

\* Series.idxmax(): the first position of the greatest non-NaN value (0 if none)
series_idxmax(s) ==
  IF \A i \in 1..Len(s) : IsNaN(s[i]) THEN 0
  ELSE CHOOSE i \in 1..Len(s) :
         /\ ~IsNaN(s[i])
         /\ \A j \in 1..Len(s) : ~float_lt(s[i], s[j])
         /\ \A j \in 1..(i - 1) : IsNaN(s[j]) \/ float_lt(s[j], s[i])

\* Series.idxmin(): the first position of the least non-NaN value (0 if none)
series_idxmin(s) ==
  IF \A i \in 1..Len(s) : IsNaN(s[i]) THEN 0
  ELSE CHOOSE i \in 1..Len(s) :
         /\ ~IsNaN(s[i])
         /\ \A j \in 1..Len(s) : ~float_lt(s[j], s[i])
         /\ \A j \in 1..(i - 1) : IsNaN(s[j]) \/ float_lt(s[i], s[j])

\* Series.max() / Series.min(): NaN skipped
series_max(s) == IF series_idxmax(s) = 0 THEN NaN ELSE s[series_idxmax(s)]

series_min(s) == IF series_idxmin(s) = 0 THEN NaN ELSE s[series_idxmin(s)]

\* pd.to_datetime(label).strftime('%Y-%m-%d')
strftime_ymd(t) == FmtDate(t[1], t[2], t[3])

(***************************************************************************)
(* analyze_rental_data: the per-metro summary ranked by median rent.  The  *)
(* result is [ret, exc, avg_yoy_change]: the value returned to the caller, *)
(* the exception the body raised and the handler swallowed ("" when none), *)
(* and the average the body logs.                                          *)
(***************************************************************************)
\* one pass of the loop over ca_metros.iterrows()
rental_summary_entry(zori_df, row, value_cols) ==
  LET n == Len(value_cols)
      latest_rent == row_get(zori_df, row, value_cols[n])
      year_ago_rent == row_get(zori_df, row, value_cols[n - YearLag + 1])
  IN  [ metro_area |-> metro_name_of(row),
        median_rent |-> latest_rent,
        yoy_change |->
          IF n >= YearLag /\ notnull(year_ago_rent) /\ float_gt(year_ago_rent, Num(0))
          THEN pct_change(latest_rent, year_ago_rent)
          ELSE None ]

analyze_rental_data(zori_df) ==
  LET ca_metros == ca_metros_of(zori_df)
      value_cols == list_sort("str", value_cols_of(zori_df))
      swallowed(e) == [ret |-> <<>>, exc |-> e, avg_yoy_change |-> None]
  IN  IF value_cols = <<>> THEN swallowed("IndexError")
      ELSE
        LET latest_month == value_cols[Len(value_cols)]
            entries == [i \in 1..Len(ca_metros) |->
                          rental_summary_entry(zori_df, ca_metros[i], value_cols)]
            valid_yoy_changes ==
              SelectSeq([i \in 1..Len(entries) |-> entries[i].yoy_change], notnull)
            rental_summary == sorted_reverse("median_rent", entries)
            median_rents ==
              SelectSeq([i \in 1..Len(rental_summary) |-> rental_summary[i].median_rent],
                        notnull)
        IN  IF to_datetime(latest_month) = None THEN swallowed("ValueError")
            ELSE IF median_rents = <<>> THEN swallowed("ZeroDivisionError")
            ELSE [ ret |-> rental_summary,
                   exc |-> "",
                   avg_yoy_change |->
                     IF valid_yoy_changes = <<>> THEN None
                     ELSE float_div(float_sum(valid_yoy_changes),
                                    Num(Len(valid_yoy_changes))) ]

(***************************************************************************)
(* create_final_dataset: [exc, final_df, rental_df]; exc is the exception  *)
(* that leaves the function ("" when it returns), and then nothing is      *)
(* returned.                                                               *)
(***************************************************************************)
\* census_data.get('P1_001N') on the census frame: the column, or None
census_column(census_data, name) ==
  IF Occurs(name, census_data.columns)
  THEN [i \in 1..Len(census_data.data) |->
          census_data.data[i][IndexOf(name, census_data.columns)]]
  ELSE None

\* the year-ago column as it would be if the first column were always taken
final_year_ago_first(value_cols) == value_cols[1]

\* the unsorted value_cols and the positional year-ago column of the final path
final_year_ago_month(value_cols) ==
  IF Len(value_cols) >= YearLag THEN value_cols[Len(value_cols) - YearLag + 1]
  ELSE value_cols[1]

\* one pass of the loop; the values are Python floats, whose division by zero
\* raises ZeroDivisionError: zero_div marks it
rental_data_entry(zori_data, row, value_cols) ==
  LET latest_rent == row_get(zori_data, row, py_max(value_cols))
      year_ago_rent == row_get(zori_data, row, final_year_ago_month(value_cols))
  IN  [ metro_area |-> metro_name_of(row),
        median_rent |-> latest_rent,
        rent_yoy_change |-> pct_change(latest_rent, year_ago_rent),
        zero_div |-> year_ago_rent = Num(0) ]

\* the aggregates as they would be if guarded against a column without values
aggregate_error_guarded(rents) == ""

\* what the aggregates of final_df raise over the median_rent column: the frame
\* built from no row has no such column, and idxmax finds no label in a column
\* that holds no value
aggregate_error(rents) ==
  IF rents = <<>> THEN "KeyError"
  ELSE IF series_idxmax(rents) = 0 THEN "KeyError"
  ELSE ""

\* rental_df.loc[label, 'metro_area']
metro_at(rental_df, label) == IF label = 0 THEN None ELSE rental_df[label].metro_area

create_final_dataset(census_data, zhvi_data, zori_data) ==
  LET raised(e) == [exc |-> e, final_df |-> None, rental_df |-> None]
      nz == Len(zhvi_data)
      ca_metros == ca_metros_of(zori_data)
      value_cols == value_cols_of(zori_data)
  IN  IF nz < YearLag THEN raised("IndexError")
      ELSE IF value_cols = <<>> THEN raised("ValueError")
      ELSE
        LET latest_month == py_max(value_cols)
            rows == [i \in 1..Len(ca_metros) |->
                       rental_data_entry(zori_data, ca_metros[i], value_cols)]
            rental_df == [i \in 1..Len(rows) |->
                            [ metro_area |-> rows[i].metro_area,
                              median_rent |-> rows[i].median_rent,
                              rent_yoy_change |-> rows[i].rent_yoy_change ]]
            rents == [i \in 1..Len(rows) |-> rows[i].median_rent]
            yoys == [i \in 1..Len(rows) |-> rows[i].rent_yoy_change]
        IN  IF \E i \in 1..Len(rows) : rows[i].zero_div THEN raised("ZeroDivisionError")
            ELSE IF aggregate_error(rents) # "" THEN raised(aggregate_error(rents))
            ELSE IF to_datetime(latest_month) = None THEN raised("ValueError")
            ELSE
              [ exc |-> "",
                final_df |->
                  << [ region |-> "California",
                    population |-> census_column(census_data, "P1_001N"),
                    median_home_value |-> zhvi_data[nz].value,
                    home_value_yoy_change |->
                      pct_change(zhvi_data[nz].value, zhvi_data[nz - YearLag + 1].value),
                    avg_metro_rent |-> series_mean(rents),
                    avg_rent_yoy_change |-> series_mean(yoys),
                    num_metro_areas |-> Len(rental_df),
                    highest_rent_metro |-> metro_at(rental_df, series_idxmax(rents)),
                    highest_rent |-> series_max(rents),
                    lowest_rent_metro |-> metro_at(rental_df, series_idxmin(rents)),
                    lowest_rent |-> series_min(rents),
                    data_date |-> strftime_ymd(to_datetime(latest_month)) ] >>,
                rental_df |-> rental_df ]

(***************************************************************************)
(* The inputs of a run: the environment, the Census server's answers and   *)
(* the two Zillow files.                                                   *)
(***************************************************************************)
CALIFORNIA == <<"C", "a", "l", "i", "f", "o", "r", "n", "i", "a">>
TEXAS == <<"T", "e", "x", "a", "s">>
NEVADA == <<"N", "e", "v", "a", "d", "a">>
FRESNO_CA == <<"F", "r", "e", "s", "n", "o", ",", " ", "C", "A">>
NAPA_CA == <<"N", "a", "p", "a", ",", " ", "C", "A">>
CHICO_CA == <<"C", "h", "i", "c", "o", ",", " ", "C", "A">>
UKIAH_CA == <<"U", "k", "i", "a", "h", ",", " ", "C", "A">>
FRESNO_TX == <<"F", "r", "e", "s", "n", "o", ",", " ", "T", "X">>
NAPA_LOWER == <<"N", "a", "p", "a", ",", " ", "c", "a">>
TAHOE_CA_NV == <<"T", "a", "h", "o", "e", ",", " ", "C", "A", "-", "N", "V">>
UNITED_STATES == <<"U", "n", "i", "t", "e", "d", " ", "S", "t", "a", "t", "e", "s">>
SIZE_RANK == <<"S", "i", "z", "e", "R", "a", "n", "k">>
POP_TEXT == <<"3", "9", "5", "3", "8", "2", "2", "3">>
STATE_CODE == <<"0", "6">>

\* CENSUS_API_KEY in the environment: unset, empty, a key the server accepts,
\* a key the server rejects
EnvKeys ==
  { [present |-> FALSE, text |-> "", valid |-> FALSE],
    [present |-> TRUE, text |-> "", valid |-> FALSE],
    [present |-> TRUE, text |-> "goodkey", valid |-> TRUE],
    [present |-> TRUE, text |-> "badkey", valid |-> FALSE] }

\* what requests.get meets: a transport failure, an HTTP error status, a 200
\* whose body is not JSON, a 200 whose body is JSON
HttpOutcomes == {"ConnectionError", "HTTPError", "NotJSON", "JSON"}

\* the server answers a rejected key with a page that is not JSON
HttpOutcomesFor(env) ==
  IF env.valid THEN HttpOutcomes ELSE HttpOutcomes \ {"JSON"}

CensusHeader == <<"NAME", "P1_001N", "state">>

CensusRow == <<CALIFORNIA, POP_TEXT, STATE_CODE>>

\* parsed JSON bodies: kind is the Python type of the parsed value
CensusPayloads ==
  { [kind |-> "list", rows |-> <<>>],
    [kind |-> "dict", rows |-> <<>>],
    [kind |-> "list", rows |-> <<CensusHeader>>],
    [kind |-> "list", rows |-> <<CensusHeader, CensusRow>>],
    [kind |-> "list", rows |-> <<<<"NAME", "state">>, <<CALIFORNIA, STATE_CODE>>>>],
    [kind |-> "list", rows |-> <<CensusHeader, <<CALIFORNIA, CALIFORNIA, STATE_CODE>>>>] }

\* the well-formed answer and one that is too short
CensusFew ==
  { [kind |-> "list", rows |-> <<CensusHeader, CensusRow>>],
    [kind |-> "list", rows |-> <<CensusHeader>>] }

\* the date labels of a file with n monthly columns ending at month last_ym,
\* in the given column order
StartOf(last_ym, n) ==
  LET idx == last_ym[1] * 12 + (last_ym[2] - 1) - (n - 1)
  IN  <<idx \div 12, (idx % 12) + 1>>

DateLabels(last_ym, n, order) ==
  LET asc == MonthEndLabels(StartOf(last_ym, n), n)
  IN  IF order = "asc" \/ n < 2 THEN asc
      ELSE IF order = "desc" THEN Reverse(asc)
      ELSE SubSeq(asc, 1, n - 2) \o <<asc[n], asc[n - 1]>>

\* the cells of one row under the labels of DateLabels: latest in the latest
\* month, year_ago twelve months before it (in the earliest month when the
\* file is shorter), filler elsewhere; one cell for the SizeRank column first
RowVals(n, order, latest, year_ago, filler) ==
  LET chrono == [i \in 1..n |->
                   IF i = n THEN latest
                   ELSE IF i = n - OffsetMonths \/ (n <= OffsetMonths /\ i = 1)
                        THEN year_ago
                        ELSE filler]
      placed == IF order = "asc" \/ n < 2 THEN chrono
                ELSE IF order = "desc" THEN Reverse(chrono)
                ELSE SubSeq(chrono, 1, n - 2) \o <<chrono[n], chrono[n - 1]>>
  IN  <<Num(1)>> \o placed

WideCols(last_ym, n, order) == <<SIZE_RANK>> \o DateLabels(last_ym, n, order)

\* a price-index file: one row per state
ZhviNames ==
  { <<CALIFORNIA>>, <<TEXAS, CALIFORNIA>>, <<TEXAS>>, <<TEXAS, NEVADA, TEXAS>>, <<>> }

ZhviLens == {0, 1, OffsetMonths, YearLag, MaxCols}

ZhviOrders == {"asc", "desc", "swap"}

ZhviLastMonths == { <<2024, 10>>, <<2021, 2>> }

\* (latest, year-ago) cells of the California row
ZhviProfiles == { <<Num(3), Num(2)>>, <<Num(3), Num(0)>>, <<Num(3), NaN>> }

ZhviTable(names, n, order, last_ym, prof) ==
  [ cols |-> WideCols(last_ym, n, order),
    rows |-> [i \in 1..Len(names) |->
                [ RegionName |-> names[i],
                  vals |-> IF names[i] = CALIFORNIA
                           THEN RowVals(n, order, prof[1], prof[2], Num(1))
                           ELSE RowVals(n, order, Num(5), Num(5), Num(5)) ]] ]

ZhviTables ==
  { ZhviTable(names, n, order, last_ym, prof) :
      names \in ZhviNames, n \in ZhviLens, order \in ZhviOrders,
      last_ym \in ZhviLastMonths, prof \in ZhviProfiles }

\* one well-formed price-index file, and one without the region
ZhviFew ==
  { ZhviTable(<<TEXAS, CALIFORNIA>>, MaxCols, "asc", <<2024, 10>>, <<Num(3), Num(2)>>),
    ZhviTable(<<TEXAS>>, MaxCols, "asc", <<2024, 10>>, <<Num(3), Num(2)>>) }

\* a rent file: one row per metro area
RentNames ==
  { FRESNO_CA, NAPA_CA, FRESNO_TX, NAPA_LOWER, TAHOE_CA_NV, UNITED_STATES }

\* the metro of row i in the files that vary the values
PositionNames == <<FRESNO_CA, NAPA_CA, CHICO_CA, UKIAH_CA>>

PositionName(i) == PositionNames[((i - 1) % Len(PositionNames)) + 1]

\* (latest, year-ago) cells of a metro's row
RentProfiles ==
  { <<Num(2), Num(1)>>, <<Num(1), Num(2)>>, <<NaN, Num(1)>>,
    <<Num(2), NaN>>, <<Num(2), Num(0)>> }

\* (number of monthly columns, column order)
RentShapes ==
  { <<0, "asc">>, <<1, "asc">>, <<2, "asc">>, <<2, "desc">>, <<YearLag, "asc">> }
    \cup { <<n, o>> : n \in (YearLag + 1)..MaxCols, o \in {"asc", "desc"} }

RentLast == <<2024, 11>>

RentTable(names, profs, shape) ==
  [ cols |-> WideCols(RentLast, shape[1], shape[2]),
    rows |-> [i \in 1..Len(names) |->
                [ RegionName |-> names[i],
                  vals |-> RowVals(shape[1], shape[2], profs[i][1], profs[i][2], Num(1)) ]] ]

SeqsUpTo(S, n) == UNION { [1..k -> S] : k \in 0..n }

\* files that vary the cells, under metro names fixed by position
ZoriByValue ==
  { RentTable([i \in 1..Len(profs) |-> PositionName(i)], profs, shape) :
      profs \in SeqsUpTo(RentProfiles, MaxRows), shape \in RentShapes }

\* files that vary the metro names, under fixed cells
ZoriByName ==
  { RentTable(names, [i \in 1..Len(names) |-> <<Num(1 + i), Num(1)>>], shape) :
      names \in SeqsUpTo(RentNames, MaxRows - 1),
      shape \in { <<2, "asc">>, <<MaxCols, "asc">> } }

ZoriTables == ZoriByValue \cup ZoriByName

ZoriFew ==
  { RentTable(<<FRESNO_CA, FRESNO_TX, NAPA_CA>>,
              <<<<Num(2), Num(1)>>, <<Num(3), Num(1)>>, <<Num(3), Num(2)>>>>,
              <<MaxCols, "asc">>),
    RentTable(<<FRESNO_TX>>, <<<<Num(2), Num(1)>>>>, <<MaxCols, "asc">>),
    RentTable(<<FRESNO_CA>>, <<<<NaN, Num(1)>>>>, <<MaxCols, "asc">>),
    RentTable(<<FRESNO_CA, NAPA_CA>>, <<<<Num(2), Num(1)>>, <<Num(1), Num(2)>>>>,
              <<2, "asc">>) }

(***************************************************************************)
(* The state of a run.                                                     *)
(***************************************************************************)
VARIABLES
  pc,                \* the statement of main that runs next
  environ,           \* CENSUS_API_KEY as the process finds it
  http,              \* the HTTP requests issued so far, in order
  response,          \* get_census_data's data: the body the server answered, parsed
  api_key,           \* main's api_key
  census_data,       \* main's census_data
  zhvi_df,           \* process_zillow_data's zhvi_df: the price-index file as read
  zori_df,           \* process_zillow_data's zori_df: the rent file as read
  zhvi_data,         \* main's zhvi_data: the points [t, value] of the series
  zori_data,         \* main's zori_data
  latest_home_value, \* main's latest_home_value
  yoy_change,        \* main's yoy_change
  rental_analysis,   \* main's rental_analysis
  final_df,          \* main's final_df
  rental_df,         \* main's rental_df
  summary_stats,     \* main's summary_stats
  files,             \* the files of the output directory, in the order written
  error,             \* the exception that left main: [at, exc, region, available]
  handled,           \* the exceptions a stage caught without re-raising: {[stage, exc]}
  pdf_tables         \* what extract_pdf_data returned to its caller

vars ==
  << pc, environ, http, response, api_key, census_data, zhvi_df, zori_df, zhvi_data, zori_data,
     latest_home_value, yoy_change, rental_analysis, final_df, rental_df,
     summary_stats, files, error, handled, pdf_tables >>

NoError == [at |-> "", exc |-> "", region |-> <<>>, available |-> <<>>]

NoTable == [cols |-> <<>>, rows |-> <<>>]

NoFrame == [columns |-> <<>>, data |-> <<>>]

\* no body: the request was not made, or it failed
NoResponse == [kind |-> "", rows |-> <<>>]

\* a body that response.json() cannot parse
NotJSON == [kind |-> "unparseable", rows |-> <<>>]

NotCalled == [called |-> FALSE, ret |-> <<>>]

Init ==
  /\ pc = "start"
  /\ environ \in EnvKeys
  /\ http = <<>>
  /\ response = NoResponse
  /\ api_key = ""
  /\ census_data = NoFrame
  /\ zhvi_df = NoTable
  /\ zori_df = NoTable
  /\ zhvi_data = <<>>
  /\ zori_data = NoTable
  /\ latest_home_value = None
  /\ yoy_change = None
  /\ rental_analysis = None
  /\ final_df = None
  /\ rental_df = None
  /\ summary_stats = None
  /\ files = <<>>
  /\ error = NoError
  /\ handled = {}
  /\ pdf_tables = NotCalled

\* an exception leaves the statement of main at pc (the handler of main logs it
\* and re-raises): the run is over
Raise(exc, region, available) ==
  /\ pc' = "failed"
  /\ error' = [at |-> pc, exc |-> exc, region |-> region, available |-> available]

RaiseIn(exc) == Raise(exc, <<>>, <<>>)

\* main is entered
main_start ==
  /\ pc = "start"
  /\ pc' = "validate"
  /\ UNCHANGED << environ, response, http, api_key, census_data, zhvi_df, zori_df, zhvi_data, zori_data,
                  latest_home_value, yoy_change, rental_analysis, final_df,
                  rental_df, summary_stats, files, error, handled, pdf_tables >>

\* the validation as it would be without the test of line 37
validate_census_api_key_untested ==
  /\ pc = "validate"
  /\ \E outcome \in HttpOutcomesFor(environ) :
       /\ http' = Append(http, "validate_census_api_key")
       /\ IF outcome = "JSON"
          THEN /\ api_key' = environ.text
               /\ pc' = "census"
               /\ UNCHANGED error
          ELSE /\ RaiseIn("ValueError")
               /\ UNCHANGED api_key
  /\ UNCHANGED << environ, response, census_data, zhvi_df, zori_df, zhvi_data, zori_data, latest_home_value,
                  yoy_change, rental_analysis, final_df, rental_df, summary_stats,
                  files, handled, pdf_tables >>

\* api_key = validate_census_api_key()
validate_census_api_key ==
  /\ pc = "validate"
  /\ IF ~environ.present \/ environ.text = ""
     THEN /\ RaiseIn("ValueError")
          /\ UNCHANGED << http, api_key >>
     ELSE \E outcome \in HttpOutcomesFor(environ) :
            /\ http' = Append(http, "validate_census_api_key")
            /\ IF outcome = "JSON"
               THEN /\ api_key' = environ.text
                    /\ pc' = "census"
                    /\ UNCHANGED error
               ELSE /\ RaiseIn("ValueError")
                    /\ UNCHANGED api_key
  /\ UNCHANGED << environ, response, census_data, zhvi_df, zori_df, zhvi_data, zori_data, latest_home_value,
                  yoy_change, rental_analysis, final_df, rental_df, summary_stats,
                  files, handled, pdf_tables >>

\* pd.DataFrame(data[1:], columns=data[0]): every data row as long as the header
frame_of(rows) == [columns |-> rows[1], data |-> SubSeq(rows, 2, Len(rows))]

frame_fits(rows) == \A i \in 2..Len(rows) : Len(rows[i]) = Len(rows[1])

\* get_census_data as it would be without the test len(data) < 2
get_census_data_any_list(Payloads) ==
  /\ pc = "census"
  /\ http' = Append(http, "get_census_data")
  /\ \E outcome \in HttpOutcomes :
       \/ /\ outcome \in {"ConnectionError", "HTTPError"}
          /\ RaiseIn(outcome)
          /\ UNCHANGED << response, census_data >>
       \/ /\ outcome = "NotJSON"
          /\ response' = NotJSON
          /\ RaiseIn("ValueError")
          /\ UNCHANGED census_data
       \/ /\ outcome = "JSON"
          /\ \E data \in Payloads :
               /\ response' = data
               /\ IF data.rows = <<>> \/ data.kind # "list"
                  THEN /\ RaiseIn("ValueError")
                       /\ UNCHANGED census_data
                  ELSE IF ~frame_fits(data.rows)
                  THEN /\ RaiseIn("ValueError")
                       /\ UNCHANGED census_data
                  ELSE /\ census_data' = frame_of(data.rows)
                       /\ pc' = "zillow"
                       /\ UNCHANGED error
  /\ UNCHANGED << environ, api_key, zhvi_df, zori_df, zhvi_data, zori_data,
                  latest_home_value,
                  yoy_change, rental_analysis, final_df, rental_df, summary_stats,
                  files, handled, pdf_tables >>

\* census_data = get_census_data(api_key), the server answering from Payloads
get_census_data(Payloads) ==
  /\ pc = "census"
  /\ http' = Append(http, "get_census_data")
  /\ \E outcome \in HttpOutcomes :
       \/ /\ outcome \in {"ConnectionError", "HTTPError"}
          /\ RaiseIn(outcome)
          /\ UNCHANGED << response, census_data >>
       \/ /\ outcome = "NotJSON"
          /\ response' = NotJSON
          /\ RaiseIn("ValueError")
          /\ UNCHANGED census_data
       \/ /\ outcome = "JSON"
          /\ \E data \in Payloads :
               /\ response' = data
               /\ IF data.rows = <<>> \/ data.kind # "list" \/ Len(data.rows) < MinCensusRows
                  THEN /\ RaiseIn("ValueError")
                       /\ UNCHANGED census_data
                  ELSE IF ~frame_fits(data.rows)
                  THEN /\ RaiseIn("ValueError")
                       /\ UNCHANGED census_data
                  ELSE /\ census_data' = frame_of(data.rows)
                       /\ pc' = "zillow"
                       /\ UNCHANGED error
  /\ UNCHANGED << environ, api_key, zhvi_df, zori_df, zhvi_data, zori_data,
                  latest_home_value,
                  yoy_change, rental_analysis, final_df, rental_df, summary_stats,
                  files, handled, pdf_tables >>

\* Series.unique(): the distinct values in order of first appearance
RECURSIVE unique(_)
unique(s) ==
  IF s = <<>> THEN <<>>
  ELSE LET u == unique(SubSeq(s, 1, Len(s) - 1))
       IN  IF Occurs(s[Len(s)], u) THEN u ELSE Append(u, s[Len(s)])

region_names(df) == [i \in 1..Len(df.rows) |-> df.rows[i].RegionName]

\* the message as it would be if it listed the filtered frame's names
available_states_of_matches(zhvi) ==
  unique(SelectSeq(region_names(zhvi), LAMBDA name : name = CALIFORNIA))

\* zhvi_df['RegionName'].unique(), as the error message lists it
available_states(zhvi) == unique(region_names(zhvi))

\* zhvi_df[zhvi_df['RegionName'] == 'California']
ca_zhvi_of(zhvi) == SelectSeq(zhvi.rows, LAMBDA r : r.RegionName = CALIFORNIA)

\* ca_zhvi[value_cols].T with its index parsed: one point per date column, in
\* the order of the columns (the cells of the first matching row)
ca_zhvi_ts_of(zhvi) ==
  LET value_cols == value_cols_of(zhvi)
      row == ca_zhvi_of(zhvi)[1]
  IN  [i \in 1..Len(value_cols) |->
         [t |-> to_datetime(value_cols[i]), value |-> row_get(zhvi, row, value_cols[i])]]

\* zhvi_data, zori_data = process_zillow_data(), reading the two files
process_zillow_data(ZhviFiles, ZoriFiles) ==
  /\ pc = "zillow"
  /\ \/ /\ RaiseIn("FileNotFoundError")
        /\ UNCHANGED << zhvi_df, zori_df, zhvi_data, zori_data >>
     \/ \E zhvi \in ZhviFiles, zori \in ZoriFiles :
          /\ zhvi_df' = zhvi
          /\ zori_df' = zori
          /\ IF ca_zhvi_of(zhvi) = <<>>
             THEN /\ Raise("ValueError", CALIFORNIA, available_states(zhvi))
                  /\ UNCHANGED << zhvi_data, zori_data >>
             ELSE IF \E col \in Range(value_cols_of(zhvi)) : to_datetime(col) = None
             THEN /\ RaiseIn("ValueError")
                  /\ UNCHANGED << zhvi_data, zori_data >>
             ELSE /\ zhvi_data' = ca_zhvi_ts_of(zhvi)
                  /\ zori_data' = zori
                  /\ pc' = "yoy"
                  /\ UNCHANGED error
  /\ UNCHANGED << environ, response, http, api_key, census_data, latest_home_value,
                  yoy_change, rental_analysis, final_df, rental_df, summary_stats,
                  files, handled, pdf_tables >>

\* zhvi_data.index.max()
RECURSIVE index_max(_)
index_max(points) ==
  IF Len(points) = 1 THEN points[1].t
  ELSE LET m == index_max(SubSeq(points, 1, Len(points) - 1))
       IN  IF date_lt(m, points[Len(points)].t) THEN points[Len(points)].t ELSE m

is_monotonic(points) ==
  \/ \A i \in 1..(Len(points) - 1) : ~date_lt(points[i + 1].t, points[i].t)
  \/ \A i \in 1..(Len(points) - 1) : ~date_lt(points[i].t, points[i + 1].t)

\* zhvi_data.loc[t:t]: the points stamped t
loc_slice(points, t) == SelectSeq(points, LAMBDA p : p.t = t)

\* the basic housing market analysis of main: latest_month, year_ago,
\* latest_home_value, year_ago_home_value, yoy_change
main_yoy ==
  /\ pc = "yoy"
  /\ IF zhvi_data = <<>>
     THEN /\ RaiseIn("IndexError")
          /\ UNCHANGED << latest_home_value, yoy_change >>
     ELSE LET latest_month == index_max(zhvi_data)
              year_ago == date_minus_months(latest_month, OffsetMonths)
              found == loc_slice(zhvi_data, year_ago)
          IN  IF found = <<>>
              THEN /\ RaiseIn(IF is_monotonic(zhvi_data) THEN "IndexError"
                                      ELSE "KeyError")
                   /\ UNCHANGED << latest_home_value, yoy_change >>
              ELSE /\ latest_home_value' = zhvi_data[Len(zhvi_data)].value
                   /\ yoy_change' = pct_change(zhvi_data[Len(zhvi_data)].value,
                                               found[1].value)
                   /\ pc' = "analyze"
                   /\ UNCHANGED error
  /\ UNCHANGED << environ, response, http, api_key, census_data, zhvi_df, zori_df, zhvi_data, zori_data,
                  rental_analysis, final_df, rental_df, summary_stats, files,
                  handled, pdf_tables >>

\* rental_analysis = analyze_rental_data(zori_data): the function catches every
\* exception of its body, logs it and returns []
main_analyze ==
  /\ pc = "analyze"
  /\ LET r == analyze_rental_data(zori_data)
     IN  /\ rental_analysis' = r.ret
         /\ handled' = IF r.exc = "" THEN handled
                       ELSE handled \cup {[stage |-> "analyze_rental_data", exc |-> r.exc]}
  /\ pc' = "final"
  /\ UNCHANGED << environ, response, http, api_key, census_data, zhvi_df, zori_df, zhvi_data, zori_data,
                  latest_home_value, yoy_change, final_df, rental_df, summary_stats,
                  files, error, pdf_tables >>

\* final_df, rental_df = create_final_dataset(census_data, zhvi_data, zori_data)
main_final ==
  /\ pc = "final"
  /\ LET r == create_final_dataset(census_data, zhvi_data, zori_data)
     IN  IF r.exc # ""
         THEN /\ RaiseIn(r.exc)
              /\ UNCHANGED << final_df, rental_df >>
         ELSE /\ final_df' = r.final_df
              /\ rental_df' = r.rental_df
              /\ pc' = "save_final"
              /\ UNCHANGED error
  /\ UNCHANGED << environ, response, http, api_key, census_data, zhvi_df, zori_df, zhvi_data, zori_data,
                  latest_home_value, yoy_change, rental_analysis, summary_stats,
                  files, handled, pdf_tables >>

\* a write that leaves its file behind when it raises
save_to_csv_partial(filename, next_pc) ==
  /\ files' = Append(files, filename)
  /\ \/ /\ pc' = next_pc
        /\ UNCHANGED error
     \/ RaiseIn("OSError")

\* save_to_csv(df, filename), and the open/write of the report: the file is
\* written whole, or the write raises (the output directory is missing or not
\* writable) and no file appears
save_to_csv(filename, next_pc) ==
  \/ /\ files' = Append(files, filename)
     /\ pc' = next_pc
     /\ UNCHANGED error
  \/ /\ RaiseIn("OSError")
     /\ UNCHANGED files

main_save_final ==
  /\ pc = "save_final"
  /\ save_to_csv("california_housing_data_final.csv", "save_rental")
  /\ UNCHANGED << environ, response, http, api_key, census_data, zhvi_df, zori_df, zhvi_data, zori_data,
                  latest_home_value, yoy_change, rental_analysis, final_df,
                  rental_df, summary_stats, handled, pdf_tables >>

main_save_rental ==
  /\ pc = "save_rental"
  /\ save_to_csv("california_rental_data.csv", "stats")
  /\ UNCHANGED << environ, response, http, api_key, census_data, zhvi_df, zori_df, zhvi_data, zori_data,
                  latest_home_value, yoy_change, rental_analysis, final_df,
                  rental_df, summary_stats, handled, pdf_tables >>

RECURSIVE digits_value(_)
digits_value(s) ==
  IF s = <<>> THEN 0 ELSE 10 * digits_value(SubSeq(s, 1, Len(s) - 1)) + DigitVal(s[Len(s)])

\* int(text) accepts decimal digits only (ValueError otherwise)
int_accepts(s) == s # <<>> /\ \A i \in 1..Len(s) : IsDigit(s[i])

\* float(text) accepts digits with at most one point
float_accepts(s) ==
  LET dots == {i \in 1..Len(s) : s[i] = "."}
  IN  /\ Cardinality(dots) <= 1
      /\ Len(s) > Cardinality(dots)
      /\ \A i \in 1..Len(s) : IsDigit(s[i]) \/ s[i] = "."

\* int(float(text)): the digits before the point
int_float_value(s) ==
  LET dots == {i \in 1..Len(s) : s[i] = "."}
  IN  IF dots = {} THEN digits_value(s)
      ELSE digits_value(SubSeq(s, 1, (CHOOSE i \in dots : TRUE) - 1))

rent_column(df) == [i \in 1..Len(df) |-> df[i].median_rent]

\* summary_stats = pd.DataFrame({...}); save_to_csv(summary_stats, 'summary_stats.csv')
main_stats ==
  /\ pc = "stats"
  /\ LET population == census_column(census_data, "P1_001N")
     IN  IF population = None
         THEN /\ RaiseIn("KeyError")
              /\ UNCHANGED << summary_stats, files >>
         ELSE IF ~float_accepts(population[1])
         THEN /\ RaiseIn("ValueError")
              /\ UNCHANGED << summary_stats, files >>
         ELSE /\ summary_stats' =
                   << [metric |-> "Population", value |-> Num(int_float_value(population[1]))],
                      [metric |-> "Median Home Value", value |-> latest_home_value],
                      [metric |-> "YoY Home Value Change", value |-> yoy_change],
                      [metric |-> "Average Metro Rent",
                       value |-> series_mean(rent_column(rental_df))] >>
              /\ save_to_csv("summary_stats.csv", "report")
  /\ UNCHANGED << environ, response, http, api_key, census_data, zhvi_df, zori_df, zhvi_data, zori_data,
                  latest_home_value, yoy_change, rental_analysis, final_df,
                  rental_df, handled, pdf_tables >>

\* generate_summary_report(census_data, zhvi_df, zori_df, zhvi_data, zori_data, final_df): the text
\* is formatted first, then written to output/summary_report.md
generate_summary_report ==
  /\ pc = "report"
  /\ LET population == census_column(census_data, "P1_001N")
     IN  IF population = None
         THEN /\ RaiseIn("KeyError")
              /\ UNCHANGED files
         ELSE IF ~int_accepts(population[1])
         THEN /\ RaiseIn("ValueError")
              /\ UNCHANGED files
         ELSE save_to_csv("summary_report.md", "done")
  /\ UNCHANGED << environ, response, http, api_key, census_data, zhvi_df, zori_df, zhvi_data, zori_data,
                  latest_home_value, yoy_change, rental_analysis, final_df,
                  rental_df, summary_stats, handled, pdf_tables >>

(***************************************************************************)
(* extract_pdf_data, which main never calls: a process that imports the    *)
(* module may call it instead of running main.                             *)
(***************************************************************************)
RECURSIVE lstrip(_)
lstrip(s) == IF s # <<>> /\ Head(s) = " " THEN lstrip(Tail(s)) ELSE s

str_strip(s) == Reverse(lstrip(Reverse(lstrip(s))))

\* str.replace(r'\s+', '_', regex=True)
RECURSIVE underscore_runs(_)
underscore_runs(s) ==
  IF s = <<>> THEN <<>>
  ELSE IF Head(s) = " " THEN <<"_">> \o underscore_runs(lstrip(s))
  ELSE <<Head(s)>> \o underscore_runs(Tail(s))

clean_column(c) == underscore_runs(str_lower(str_strip(c)))

\* a table tabula found: its header and which of its columns hold no value
\* (dropna(axis=1, how='all') drops those)
PdfTable(empty, columns, blank) == [empty |-> empty, columns |-> columns, blank |-> blank]

RENT_VALUE_HDR == <<" ", "R", "e", "n", "t", " ", " ", "V", "a", "l", "u", "e">>
YEAR_HDR == <<"Y", "e", "a", "r", " ">>

PdfInputs ==
  { <<>>,
    << PdfTable(FALSE, <<RENT_VALUE_HDR, YEAR_HDR>>, {2}) >>,
    << PdfTable(TRUE, <<>>, {}), PdfTable(FALSE, <<YEAR_HDR>>, {}) >> }

processed_tables_of(tables) ==
  LET kept == SelectSeq([i \in 1..Len(tables) |-> [i |-> i, table |-> tables[i]]],
                        LAMBDA e : ~e.table.empty)
  IN  [k \in 1..Len(kept) |->
         [ table_number |-> kept[k].i,
           data |-> LET cols == kept[k].table.columns
                        live == SelectSeq([j \in 1..Len(cols) |-> j],
                                          LAMBDA j : j \notin kept[k].table.blank)
                    IN  [j \in 1..Len(live) |-> clean_column(cols[live[j]])] ]]

extract_pdf_data ==
  /\ pc = "start"
  /\ pc' = "pdf_done"
  /\ \/ /\ pdf_tables' = [called |-> TRUE, ret |-> <<>>]
        /\ handled' = handled \cup {[stage |-> "extract_pdf_data", exc |-> "Exception"]}
     \/ /\ \E tables \in PdfInputs :
             pdf_tables' = [called |-> TRUE, ret |-> processed_tables_of(tables)]
        /\ UNCHANGED handled
  /\ UNCHANGED << environ, response, http, api_key, census_data, zhvi_df, zori_df, zhvi_data, zori_data,
                  latest_home_value, yoy_change, rental_analysis, final_df,
                  rental_df, summary_stats, files, error >>

(***************************************************************************)
(* The specifications: Spec varies the price-index file widely over a few  *)
(* rent files, SpecRent varies the rent file widely over two price-index   *)
(* files.                                                                  *)
(***************************************************************************)
zillow_wide_zhvi == process_zillow_data(ZhviTables, ZoriFew)

zillow_wide_zori == process_zillow_data(ZhviFew, ZoriTables)

census_wide == get_census_data(CensusPayloads)

census_few == get_census_data(CensusFew)

Pipeline ==
  \/ main_start
  \/ validate_census_api_key
  \/ main_yoy
  \/ main_analyze
  \/ main_final
  \/ main_save_final
  \/ main_save_rental
  \/ main_stats
  \/ generate_summary_report
  \/ extract_pdf_data

Next == Pipeline \/ census_wide \/ zillow_wide_zhvi

NextRent == Pipeline \/ census_few \/ zillow_wide_zori

Spec == Init /\ [][Next]_vars

SpecRent == Init /\ [][NextRent]_vars

(***************************************************************************)
(* Properties.  They speak of the run through the statements of main:      *)
(* Entered(st) when statement st has run (to its end or to an exception),  *)
(* Returned(st) when it has run to its end.                                *)
(***************************************************************************)
Statements ==
  << "start", "validate", "census", "zillow", "yoy", "analyze", "final",
     "save_final", "save_rental", "stats", "report", "done" >>

Pos(st) == IndexOf(st, Statements)

Entered(st) ==
  IF pc = "failed" THEN Pos(error.at) >= Pos(st)
  ELSE pc # "pdf_done" /\ Pos(pc) > Pos(st)

Returned(st) ==
  IF pc = "failed" THEN Pos(error.at) > Pos(st)
  ELSE pc # "pdf_done" /\ Pos(pc) > Pos(st)

\* the name holds the qualifier ", CA" somewhere, letter for letter
NameHasQualifier(name) ==
  \E i \in 1..(Len(name) - 3) :
    name[i] = "," /\ name[i + 1] = " " /\ name[i + 2] = "C" /\ name[i + 3] = "A"

\* the names of the rent file's rows that hold the qualifier, in file order
MatchedRows(df) == SelectSeq(df.rows, LAMBDA r : NameHasQualifier(r.RegionName))

\* the exceptions analyze_rental_data caught
AnalyzeCaught == {h \in handled : h.stage = "analyze_rental_data"}

\* the date-labeled columns in chronological order
ChronCols(df) ==
  SortSeq(SelectSeq(df.cols, LAMBDA c : Len(c) >= 2 /\ c[1] = "2" /\ c[2] = "0"),
          LAMBDA a, b : date_lt(to_datetime(a), to_datetime(b)))

Cell(df, row, label) == row.vals[CHOOSE i \in 1..Len(df.cols) : df.cols[i] = label]

\* the year-over-year change the claims define for a row: None when absent
ExpectedYoY(df, row) ==
  LET cols == ChronCols(df)
      n == Len(cols)
      latest == Cell(df, row, cols[n])
      year_ago == Cell(df, row, cols[n - 12])
  IN  IF n >= 13 /\ year_ago # NaN /\ year_ago # Num(0)
      THEN float_mul(float_div(float_sub(latest, year_ago), year_ago), Num(100))
      ELSE None

\* a reported change agrees with the defined one (an absent change is reported
\* as None or as NaN)
YoYAgrees(reported, expected) ==
  IF expected = None THEN reported = None \/ reported = NaN
  ELSE reported = expected

(* C1: once main has a rent table in which no row's RegionName holds ", CA",
   analyze_rental_data never returns to main (it ends in an error), and
   neither does create_final_dataset. *)
C1_EmptyFilterIsAnError ==
  (Entered("zillow") /\ zori_data # NoTable /\ MatchedRows(zori_data) = <<>>)
    => (~Returned("analyze") /\ ~Returned("final"))

(* C2: every entry analyze_rental_data returned and every row of
   create_final_dataset's rental table carries the year-over-year change of
   its area: (latest - yearAgo) / yearAgo * 100 when the file has at least 13
   date columns and the area's 13th-from-last value, in chronological order,
   is present and non-zero, and no change otherwise. *)
C2_YoYPresentIffHistory ==
  /\ (Returned("analyze") /\ AnalyzeCaught = {})
       => \A k \in 1..Len(rental_analysis) :
            \E i \in 1..Len(MatchedRows(zori_data)) :
              LET row == MatchedRows(zori_data)[i]
              IN  /\ Cell(zori_data, row, ChronCols(zori_data)[Len(ChronCols(zori_data))])
                       = rental_analysis[k].median_rent
                  /\ YoYAgrees(rental_analysis[k].yoy_change, ExpectedYoY(zori_data, row))
  /\ Returned("final")
       => \A i \in 1..Len(rental_df) :
            YoYAgrees(rental_df[i].rent_yoy_change,
                      ExpectedYoY(zori_data, MatchedRows(zori_data)[i]))

(* C3: when the price-index file has no row named California,
   process_zillow_data ends in an error that names the region and lists the
   distinct region names of the file, and returns no series (and no rent
   table). *)
C3_MissingRegionError ==
  (Entered("zillow") /\ zhvi_df # NoTable
     /\ \A i \in 1..Len(zhvi_df.rows) : zhvi_df.rows[i].RegionName # CALIFORNIA)
    => /\ pc = "failed"
       /\ error.at = "zillow"
       /\ error.exc = "ValueError"
       /\ error.region = CALIFORNIA
       /\ Range(error.available) = {zhvi_df.rows[i].RegionName : i \in 1..Len(zhvi_df.rows)}
       /\ Len(error.available) = Cardinality(Range(error.available))
       /\ zhvi_data = <<>>
       /\ zori_data = NoTable

C3_Witness ==
  /\ pc = "failed"
  /\ error.at = "zillow"
  /\ error.available = <<TEXAS, NEVADA>>
  /\ Len(zhvi_df.rows) = 3

(* C4: the series process_zillow_data returns is strictly ascending by
   timestamp (so it has no duplicate timestamps), whatever the order of the
   file's date columns. *)
C4_SeriesStrictlyAscending ==
  Returned("zillow")
    => \A i \in 1..Len(zhvi_data) : \A j \in 1..Len(zhvi_data) :
         i < j => date_lt(zhvi_data[i].t, zhvi_data[j].t)

\* the file row an entry of the ranking comes from (metro names are distinct)
SourceRow(entry) ==
  CHOOSE i \in 1..Len(MatchedRows(zori_data)) :
    NameHasQualifier(MatchedRows(zori_data)[i].RegionName)
      /\ str_remove(MatchedRows(zori_data)[i].RegionName, CA_SUFFIX) = entry.metro_area

DistinctNames(df) ==
  \A i \in 1..Len(df.rows) : \A j \in 1..Len(df.rows) :
    i # j => df.rows[i].RegionName # df.rows[j].RegionName

(* C5: the list analyze_rental_data returns is in descending order of
   median_rent (no entry is followed by one of greater median_rent), and
   entries of equal median_rent keep the order of their rows in the file. *)
C5_RankedDescendingStable ==
  Returned("analyze")
    => \A i \in 1..Len(rental_analysis) : \A j \in 1..Len(rental_analysis) :
         i < j =>
           /\ ~float_lt(rental_analysis[i].median_rent, rental_analysis[j].median_rent)
           /\ (DistinctNames(zori_data)
                 /\ rental_analysis[i].median_rent = rental_analysis[j].median_rent)
                => SourceRow(rental_analysis[i]) < SourceRow(rental_analysis[j])

\* the display name of a matched row: the name without its qualifier
StripAt(name) ==
  LET i == CHOOSE k \in 1..(Len(name) - 3) :
             name[k] = "," /\ name[k + 1] = " " /\ name[k + 2] = "C" /\ name[k + 3] = "A"
  IN  SubSeq(name, 1, i - 1) \o SubSeq(name, i + 4, Len(name))

ExpectedDisplay(df) ==
  [i \in 1..Len(MatchedRows(df)) |-> StripAt(MatchedRows(df)[i].RegionName)]

CountOf(x, s) == Cardinality({i \in 1..Len(s) : s[i] = x})

(* C6: a row of the rent file contributes an area observation exactly when
   its RegionName holds ", CA" (case-sensitive, anywhere in the name), and the
   observation's display name is the RegionName without that qualifier: the
   rows of create_final_dataset's rental table are the matched rows in file
   order, and the entries analyze_rental_data returns (when its body raised
   nothing) are the same areas, each as often as it is matched. *)
C6_FilterIsSubstringMatch ==
  /\ Returned("final")
       => [i \in 1..Len(rental_df) |-> rental_df[i].metro_area] = ExpectedDisplay(zori_data)
  /\ (Returned("analyze") /\ AnalyzeCaught = {})
       => LET got == [i \in 1..Len(rental_analysis) |-> rental_analysis[i].metro_area]
              want == ExpectedDisplay(zori_data)
          IN  /\ Len(got) = Len(want)
              /\ \A k \in 1..Len(want) : CountOf(want[k], got) = CountOf(want[k], want)

C6_Witness ==
  /\ pc = "done"
  /\ region_names(zori_data) = <<FRESNO_TX, TAHOE_CA_NV>>
  /\ Len(rental_df) = 1
  /\ rental_df[1].metro_area = <<"T", "a", "h", "o", "e", "-", "N", "V">>
  /\ Len(rental_analysis) = 1

(* C7: extract_pdf_data is the only stage that catches an exception without
   re-raising it: every exception raised in another stage leaves main. *)
C7_OnlyPdfPathSwallows ==
  \A h \in handled : h.stage = "extract_pdf_data"

(* C9: when no row of the rent file is matched, so that the collection the
   mean, max and min are computed from is empty, create_final_dataset ends in
   an error and main gets no final_df and no rental_df. *)
C9_EmptyAggregateIsAnError ==
  (Entered("final") /\ MatchedRows(zori_data) = <<>>)
    => /\ pc = "failed"
       /\ error.at = "final"
       /\ final_df = None
       /\ rental_df = None
       /\ files = <<>>

C9_Witness ==
  /\ pc = "failed"
  /\ error.at = "final"
  /\ error.exc = "KeyError"
  /\ MatchedRows(zori_data) = <<>>
  /\ Len(zori_data.rows) = 2
  /\ Len(value_cols_of(zori_data)) = MaxCols

OutputOrder ==
  << "california_housing_data_final.csv", "california_rental_data.csv",
     "summary_stats.csv", "summary_report.md" >>

WriteStatements == {"save_final", "save_rental", "stats", "report"}

\* the number of writes that come before statement st
WritesBefore(st) == Cardinality({w \in WriteStatements : Pos(w) < Pos(st)})

(* C10: the output files are written in the fixed order final-data CSV,
   rental-data CSV, summary-stats CSV, summary report; none is written before
   key validation, the census fetch, the price-index processing and the
   final-dataset construction have completed; and a run that fails leaves
   exactly the files of the writes that completed before the failing
   statement. *)
C10_WritesAfterStagesInOrder ==
  /\ Len(files) <= Len(OutputOrder)
  /\ files = SubSeq(OutputOrder, 1, Len(files))
  /\ files # <<>>
       => /\ Returned("validate") /\ Returned("census")
          /\ Returned("zillow") /\ Returned("final")
          /\ api_key # ""
          /\ census_data # NoFrame
          /\ zhvi_data # <<>>
          /\ final_df # None
  /\ pc = "failed" => Len(files) = WritesBefore(error.at)
  /\ pc \notin {"failed", "pdf_done"} => Len(files) = WritesBefore(pc)

C10_Witness ==
  /\ pc = "failed"
  /\ error.at = "stats"
  /\ error.exc = "OSError"
  /\ files = SubSeq(OutputOrder, 1, 2)

\* CENSUS_API_KEY is unset or empty / is set to a key the server rejects
KeyAbsent == ~environ.present \/ environ.text = ""

KeyRejected == ~KeyAbsent /\ ~environ.valid

(* C11 as stated: in a run whose CENSUS_API_KEY is missing, empty or invalid
   no HTTP request is ever issued. *)
C11_NoRequestForBadKey ==
  (KeyAbsent \/ KeyRejected) => http = <<>>

(* C11, amended: a missing or empty CENSUS_API_KEY makes the run fail in
   validate_census_api_key with no HTTP request issued; a key the server
   rejects is found out by the test request of validate_census_api_key, so
   that run issues exactly that one request, fails there, and never issues
   the request of get_census_data. *)
C11_AbsentKeyFailsBeforeRequest ==
  /\ KeyAbsent
       => /\ http = <<>>
          /\ api_key = ""
          /\ Entered("validate") => (pc = "failed" /\ error.at = "validate")
  /\ KeyRejected
       => /\ api_key = ""
          /\ ~Entered("validate") => http = <<>>
          /\ Entered("validate")
               => /\ pc = "failed" /\ error.at = "validate"
                  /\ http = <<"validate_census_api_key">>

C11_Witness ==
  /\ pc = "failed"
  /\ error.at = "validate"
  /\ error.exc = "ValueError"
  /\ KeyAbsent
  /\ environ.present
  /\ http = <<>>

\* the parsed response is a list of at least two rows
ResponseIsTable == response.kind = "list" /\ Len(response.rows) >= 2

(* C12: get_census_data returns a table only when the parsed response is a
   list of at least 2 rows, and the table then has row 0 as its column labels
   and the remaining rows as its data; for every other response (empty, not a
   list, fewer than 2 rows, unparseable) the call ends in an error and main
   gets no census_data. *)
C12_TableOnlyFromHeaderAndRows ==
  /\ Returned("census")
       => /\ ResponseIsTable
          /\ census_data.columns = response.rows[1]
          /\ census_data.data = Tail(response.rows)
  /\ (Entered("census") /\ ~ResponseIsTable)
       => (pc = "failed" /\ error.at = "census")
  /\ ~Returned("census") => census_data = NoFrame

C12_Witness ==
  /\ pc = "failed"
  /\ error.at = "census"
  /\ error.exc = "ValueError"
  /\ response.kind = "list"
  /\ Len(response.rows) = 1
  /\ census_data = NoFrame

\* the current value of every matched area: its cell in the chronologically
\* latest date column, in file order
CurrentValues(df) ==
  LET cols == ChronCols(df)
      matched == MatchedRows(df)
  IN  [i \in 1..Len(matched) |-> Cell(df, matched[i], cols[Len(cols)])]

\* the values among s that are present
Present(s) == {s[i] : i \in {j \in 1..Len(s) : s[j] # NaN}}

IsGreatestOf(v, s) == v \in Present(s) /\ \A w \in Present(s) : ~float_lt(v, w)

IsLeastOf(v, s) == v \in Present(s) /\ \A w \in Present(s) : ~float_lt(w, v)

\* the population value of the fetched record: the P1_001N cell of its first row
PopulationValue ==
  census_data.data[1][CHOOSE i \in 1..Len(census_data.columns) :
                        census_data.columns[i] = "P1_001N"]

HomeValuesAgree ==
  final_df[1].median_home_value = zhvi_data[Len(zhvi_data)].value

RentFieldsAgree ==
  /\ IsGreatestOf(final_df[1].highest_rent, CurrentValues(zori_data))
  /\ IsLeastOf(final_df[1].lowest_rent, CurrentValues(zori_data))
  /\ final_df[1].num_metro_areas = Len(MatchedRows(zori_data))

(* C13: in the record main gets from create_final_dataset, population is the
   population value of the fetched census record, median_home_value is the
   value of the last point of the price-index series, highest_rent and
   lowest_rent are the greatest and least current value over the matched
   areas, and num_metro_areas is the number of matched areas. *)
C13_RecordFieldsEqualInputs ==
  Returned("final")
    => /\ (\E i \in 1..Len(census_data.columns) : census_data.columns[i] = "P1_001N")
            => final_df[1].population = PopulationValue
       /\ HomeValuesAgree
       /\ RentFieldsAgree

\* the positions of the ranked list whose current value is v
RankedAt(v) == {i \in 1..Len(rental_analysis) : rental_analysis[i].median_rent = v}

\* the area that comes first in the ranked list among those whose value is v
FirstRanked(v) ==
  rental_analysis[CHOOSE i \in RankedAt(v) : \A j \in RankedAt(v) : i <= j].metro_area

(* C14: the area the record names as highest_rent_metro is, among the areas
   whose current value is the maximum, the one that comes first in the list
   analyze_rental_data returned; likewise lowest_rent_metro among the areas
   whose current value is the minimum. *)
C14_TiesGoToFirstRanked ==
  Returned("final")
    => /\ RankedAt(final_df[1].highest_rent) # {}
       /\ final_df[1].highest_rent_metro = FirstRanked(final_df[1].highest_rent)
       /\ RankedAt(final_df[1].lowest_rent) # {}
       /\ final_df[1].lowest_rent_metro = FirstRanked(final_df[1].lowest_rent)

\* two areas of different names share the maximum, and two the minimum
C14_Witness ==
  /\ Returned("final")
  /\ Len(rental_df) = 3
  /\ rental_df[1].median_rent = final_df[1].lowest_rent
  /\ rental_df[2].median_rent = final_df[1].highest_rent
  /\ rental_df[3].median_rent = final_df[1].highest_rent
  /\ final_df[1].highest_rent # final_df[1].lowest_rent
  /\ final_df[1].highest_rent_metro = rental_df[2].metro_area
  /\ rental_df[2].metro_area # rental_df[3].metro_area

\* the greatest of the date-labeled column names
LatestLabel(df) ==
  LET labels == Range(SelectSeq(df.cols, LAMBDA c : Len(c) >= 2 /\ c[1] = "2" /\ c[2] = "0"))
  IN  CHOOSE c \in labels : \A d \in labels : d = c \/ str_lt(d, c)

(* C15: whatever the order of the rent table's columns, the latest period is
   the greatest of the column names that start with "20": the median_rent of
   every row of create_final_dataset's rental table and of every entry
   analyze_rental_data returns is the area's cell in that column, data_date is
   that column's date, and so both functions report the same current value
   for each area. *)
C15_LatestIsGreatestLabel ==
  LET latest == LatestLabel(zori_data)
      matched == MatchedRows(zori_data)
      display == ExpectedDisplay(zori_data)
      current == [i \in 1..Len(matched) |-> Cell(zori_data, matched[i], latest)]
      final_pairs == [i \in 1..Len(rental_df) |->
                        [metro_area |-> rental_df[i].metro_area,
                         median_rent |-> rental_df[i].median_rent]]
      analysis_pairs == [k \in 1..Len(rental_analysis) |->
                           [metro_area |-> rental_analysis[k].metro_area,
                            median_rent |-> rental_analysis[k].median_rent]]
  IN  /\ Returned("final")
           => /\ final_df[1].data_date = strftime_ymd(to_datetime(latest))
              /\ \A i \in 1..Len(rental_df) : rental_df[i].median_rent = current[i]
              /\ \A i \in 1..Len(rental_df) :
                   CountOf(final_pairs[i], final_pairs)
                     = CountOf(final_pairs[i], analysis_pairs)
      /\ (Returned("analyze") /\ AnalyzeCaught = {})
           => \A k \in 1..Len(rental_analysis) :
                \E i \in 1..Len(matched) :
                  /\ rental_analysis[k].metro_area = display[i]
                  /\ rental_analysis[k].median_rent = current[i]

\* the columns stand newest first, and the area's cells in the first and the
\* last of them differ
C15_Witness ==
  /\ Returned("final")
  /\ Len(value_cols_of(zori_data)) = MaxCols
  /\ value_cols_of(zori_data)[1] = LatestLabel(zori_data)
  /\ Len(rental_df) >= 1
  /\ rental_df[1].median_rent = Num(2)
  /\ Cell(zori_data, MatchedRows(zori_data)[1], value_cols_of(zori_data)[MaxCols]) = Num(1)
  /\ Len(rental_analysis) = Len(rental_df)

\* the points of the price-index series in ascending order of their dates
SortedSeries == SortSeq(zhvi_data, LAMBDA a, b : date_lt(a.t, b.t))

\* the change of the latest point against the point 12 periods before it
SeriesYoY ==
  LET pts == SortedSeries
      n == Len(pts)
  IN  float_mul(float_div(float_sub(pts[n].value, pts[n - 12].value), pts[n - 12].value),
                Num(100))

Absent(x) == x = None \/ x = NaN

(* C16: for the price-index series main got from process_zillow_data, a
   series of 13 or more points has its year-over-year change computed against
   the point at index len-13 of the sorted sequence, in main's yoy_change and
   in the record's home_value_yoy_change; a series of fewer than 13 points
   makes neither computation end the run in an error, and both values are
   absent. *)
C16_HomeYoYAgainstThirteenthFromLast ==
  Returned("zillow")
    => IF Len(zhvi_data) >= 13
       THEN /\ Returned("yoy") => yoy_change = SeriesYoY
            /\ Returned("final") => final_df[1].home_value_yoy_change = SeriesYoY
       ELSE /\ ~(pc = "failed" /\ error.at = "yoy")
            /\ Returned("yoy") => Absent(yoy_change)
            /\ Returned("final") => Absent(final_df[1].home_value_yoy_change)

\* the date-labeled columns in the order of the file
DateCols(df) == SelectSeq(df.cols, LAMBDA c : Len(c) >= 2 /\ c[1] = "2" /\ c[2] = "0")

AscendingCols(df) ==
  LET dates == [i \in 1..Len(DateCols(df)) |-> to_datetime(DateCols(df)[i])]
  IN  \A i \in 1..(Len(dates) - 1) : date_lt(dates[i], dates[i + 1])

Positive(x) == x # NaN /\ float_lt(Num(0), x)

\* the area's latest and year-ago values are present and positive
Qualifies(df, row, cols) ==
  /\ Positive(Cell(df, row, cols[Len(cols)]))
  /\ Positive(Cell(df, row, cols[Len(cols) - 12]))

\* the change of the row's latest value against its value in the first column
ChangeAgainstFirst(df, row, first_label, latest_label) ==
  LET first == Cell(df, row, first_label)
      latest == Cell(df, row, latest_label)
  IN  float_mul(float_div(float_sub(latest, first), first), Num(100))

(* C17: for a rent table of 13 or more date-labeled columns in ascending
   order, every matched area whose latest and year-ago values are present and
   positive has the same change in the entry analyze_rental_data returns for
   it and in its row of create_final_dataset's rental table, and when every
   matched area is such the average analyze_rental_data computes equals the
   record's avg_rent_yoy_change; for a table of fewer than 13 columns
   analyze_rental_data reports no change for any area while
   create_final_dataset reports the change against the first column. *)
C17_RentPathsAgreeOnFullHistory ==
  Returned("final")
    => LET cols == DateCols(zori_data)
           matched == MatchedRows(zori_data)
           qualifies == [i \in 1..Len(matched) |-> Qualifies(zori_data, matched[i], cols)]
           latest == LatestLabel(zori_data)
       IN  /\ (Len(cols) >= 13 /\ AscendingCols(zori_data))
                => /\ \A i \in 1..Len(matched) :
                        qualifies[i]
                          => \E k \in 1..Len(rental_analysis) :
                               /\ rental_analysis[k].metro_area = rental_df[i].metro_area
                               /\ rental_analysis[k].median_rent = rental_df[i].median_rent
                               /\ rental_analysis[k].yoy_change = rental_df[i].rent_yoy_change
                   /\ (\A i \in 1..Len(matched) : qualifies[i])
                        => analyze_rental_data(zori_data).avg_yoy_change
                             = final_df[1].avg_rent_yoy_change
           /\ Len(cols) < 13
                => /\ \A k \in 1..Len(rental_analysis) : rental_analysis[k].yoy_change = None
                   /\ \A i \in 1..Len(matched) :
                        rental_df[i].rent_yoy_change
                          = ChangeAgainstFirst(zori_data, matched[i], cols[1], latest)

C17_Witness ==
  /\ Returned("final")
  /\ Len(DateCols(zori_data)) = MaxCols
  /\ AscendingCols(zori_data)
  /\ Len(rental_df) = 2
  /\ rental_df[1].rent_yoy_change = Num(100)
  /\ rental_df[2].rent_yoy_change = Num(0 - 50)
  /\ Len(rental_analysis) = 2
  /\ rental_analysis[2].yoy_change = Num(0 - 50)
  /\ final_df[1].avg_rent_yoy_change = Num(25)

\* the points are one per month, each in the month after the one before it
ConsecutiveMonths(points) ==
  \A i \in 1..(Len(points) - 1) :
    points[i + 1].t[1] * 12 + points[i + 1].t[2] = points[i].t[1] * 12 + points[i].t[2] + 1

(* C18: for a price-index series of at least 13 points, one per consecutive
   month in ascending order, main finds its year-ago point by date, and the
   change it computes and writes to summary_stats.csv equals the record's
   home_value_yoy_change, whose year-ago point is the 13th from last. *)
C18_HomeYoYByDateEqualsByPosition ==
  (Returned("zillow") /\ Len(zhvi_data) >= 13 /\ ConsecutiveMonths(zhvi_data))
    => /\ ~(pc = "failed" /\ error.at = "yoy")
       /\ Returned("final") => yoy_change = final_df[1].home_value_yoy_change
       /\ Returned("stats") => summary_stats[3].value = final_df[1].home_value_yoy_change

====
